---- MODULE Spec2Model ----
(***************************************************************************)
(* Model of the PassManager contract (src/src/lib.rs,                      *)
(* src/src/user_account.rs): a credential store keeping, per user, an      *)
(* UnorderedSet of account ids, and an id -> UserAccount table, with       *)
(* storage-cost accounting on every mutation.                              *)
(*                                                                         *)
(* Strings that are encoded, decoded or measured are sequences of bytes.   *)
(* A call is one atomic step: the contract is single-threaded and a call   *)
(* runs to completion or panics.  A panic ends the call where it is        *)
(* raised; the model keeps the writes the call's own statements made       *)
(* before it (the collections write through to storage, and `self` is      *)
(* mutated in place), so the contract's own undo path is what restores     *)
(* state after an underpaid add_account.  This is the state the mocked     *)
(* VM of the unit tests (testing_env!) is left in; a NEAR node discards    *)
(* the writes of a receipt that panics, whatever the contract undid.       *)
(***************************************************************************)
EXTENDS Integers, Sequences, FiniteSets, TLC

\* ------------------------------------------------------------------ bounds

\* Largest value the id counter may reach in the model.
MaxId == 2

\* Price of one byte of storage (env::storage_byte_cost()), in model yocto.
ByteCost == 3

\* Stand-in for 2^64, the width of env::storage_usage(); larger than any
\* storage size the model reaches.
StorageUsageModulus == 65536

\* The deposit the unit tests attach (10^22 yoctoNEAR), in bytes of storage
\* it pays for: more than any single call of the model consumes.
AmpleBytes == 1000

\* ------------------------------------------------------------------ inputs

Users == {"1.milos21.testnet", "2.milos21.testnet"}

Websites == {"instagram", "facebook"}

\* The (username, password) pairs written: ("usr", "") and (U+00E9 as two
\* UTF-8 bytes, "pass").  Their lengths 3, 0, 2 and 4 take base64 through
\* every tail: no padding, nothing, one '=' and a second chunk with two.
Credentials == { << <<117, 115, 114>>, <<>> >>,
                 << <<195, 169>>, <<112, 97, 115, 115>> >> }

AccountIds == 1..MaxId

\* ------------------------------------------------------------ panic texts

NoPanic == ""
NoDeposit == "Required attached deposit of at least 1 yoctoNEAR"
InsufficientPayment == "Must attach {} yoctoNEAR to cover storage"
InvalidUserList == "Invalid user"
InvalidUserDetach == "Invalid User"
AccountNotFound == "Account not found"
UnwrapNone == "called Option::unwrap() on a None value"
SubtractOverflow == "attempt to subtract with overflow"
CannotDecodeUsername == "Cannot decode username"
CannotDecodePassword == "Cannot decode password"
NotAString == "Not a string"

\* -------------------------------------------------------------- base64

\* The standard alphabet: sextet value -> ASCII code.
Base64Char(v) ==
    IF v < 26 THEN 65 + v
    ELSE IF v < 52 THEN 97 + (v - 26)
    ELSE IF v < 62 THEN 48 + (v - 52)
    ELSE IF v = 62 THEN 43 ELSE 47

\* ASCII code -> sextet value, -1 for a byte outside the alphabet.
Base64Value(c) ==
    IF c >= 65 /\ c <= 90 THEN c - 65
    ELSE IF c >= 97 /\ c <= 122 THEN c - 97 + 26
    ELSE IF c >= 48 /\ c <= 57 THEN c - 48 + 52
    ELSE IF c = 43 THEN 62
    ELSE IF c = 47 THEN 63 ELSE -1

\* The padding character, ASCII 61.
PadChar == 61

RECURSIVE encode(_)
\* base64::encode: three bytes become four characters; a tail of one or two
\* bytes is zero-filled and padded with '='.
encode(bytes) ==
    IF Len(bytes) = 0 THEN <<>>
    ELSE IF Len(bytes) = 1 THEN
        << Base64Char(bytes[1] \div 4), Base64Char((bytes[1] % 4) * 16),
           PadChar, PadChar >>
    ELSE IF Len(bytes) = 2 THEN
        << Base64Char(bytes[1] \div 4),
           Base64Char((bytes[1] % 4) * 16 + bytes[2] \div 16),
           Base64Char((bytes[2] % 16) * 4), PadChar >>
    ELSE
        << Base64Char(bytes[1] \div 4),
           Base64Char((bytes[1] % 4) * 16 + bytes[2] \div 16),
           Base64Char((bytes[2] % 16) * 4 + bytes[3] \div 64),
           Base64Char(bytes[3] % 64) >>
        \o encode(SubSeq(bytes, 4, Len(bytes)))

DecodeErr == [ok |-> FALSE, bytes |-> <<>>]

RECURSIVE decode(_)
\* base64::decode: the inverse of encode; an error for a length that is not
\* a multiple of four, a byte outside the alphabet, padding anywhere but at
\* the end, or non-zero bits under the padding.
decode(chars) ==
    IF Len(chars) = 0 THEN [ok |-> TRUE, bytes |-> <<>>]
    ELSE IF Len(chars) < 4 THEN DecodeErr
    ELSE
        LET a == Base64Value(chars[1])
            b == Base64Value(chars[2])
            c == Base64Value(chars[3])
            d == Base64Value(chars[4])
            last == Len(chars) = 4
        IN  IF a < 0 \/ b < 0 THEN DecodeErr
            ELSE IF last /\ chars[3] = PadChar /\ chars[4] = PadChar THEN
                IF b % 16 # 0 THEN DecodeErr
                ELSE [ok |-> TRUE, bytes |-> << a * 4 + b \div 16 >>]
            ELSE IF c < 0 THEN DecodeErr
            ELSE IF last /\ chars[4] = PadChar THEN
                IF c % 4 # 0 THEN DecodeErr
                ELSE [ok |-> TRUE,
                      bytes |-> << a * 4 + b \div 16,
                                   (b % 16) * 16 + c \div 4 >>]
            ELSE IF d < 0 THEN DecodeErr
            ELSE
                LET rest == decode(SubSeq(chars, 5, Len(chars)))
                IN  IF ~rest.ok THEN DecodeErr
                    ELSE [ok |-> TRUE,
                          bytes |-> << a * 4 + b \div 16,
                                       (b % 16) * 16 + c \div 4,
                                       (c % 4) * 64 + d >> \o rest.bytes]

\* A continuation byte 10xxxxxx.
IsContinuation(b) == b >= 128 /\ b <= 191

RECURSIVE from_utf8(_)
\* std::str::from_utf8: TRUE when the bytes are well-formed UTF-8.
from_utf8(bytes) ==
    IF Len(bytes) = 0 THEN TRUE
    ELSE
        LET b1 == bytes[1]
            n  == Len(bytes)
        IN  IF b1 <= 127 THEN from_utf8(Tail(bytes))
            ELSE IF b1 >= 194 /\ b1 <= 223 THEN
                /\ n >= 2
                /\ IsContinuation(bytes[2])
                /\ from_utf8(SubSeq(bytes, 3, n))
            ELSE IF b1 >= 224 /\ b1 <= 239 THEN
                /\ n >= 3
                /\ IsContinuation(bytes[2])
                /\ IsContinuation(bytes[3])
                /\ (b1 = 224 => bytes[2] >= 160)
                /\ (b1 = 237 => bytes[2] <= 159)
                /\ from_utf8(SubSeq(bytes, 4, n))
            ELSE IF b1 >= 240 /\ b1 <= 244 THEN
                /\ n >= 4
                /\ IsContinuation(bytes[2])
                /\ IsContinuation(bytes[3])
                /\ IsContinuation(bytes[4])
                /\ (b1 = 240 => bytes[2] >= 144)
                /\ (b1 = 244 => bytes[2] <= 143)
                /\ from_utf8(SubSeq(bytes, 5, n))
            ELSE FALSE

\* decode_credentials: the account with username and password decoded, or
\* the panic that stops it.
decode_credentials(account) ==
    LET u == decode(account.username)
        p == decode(account.password)
    IN  IF ~u.ok THEN [panic |-> CannotDecodeUsername, ret |-> <<>>]
        ELSE IF ~from_utf8(u.bytes) THEN [panic |-> NotAString, ret |-> <<>>]
        ELSE IF ~p.ok THEN [panic |-> CannotDecodePassword, ret |-> <<>>]
        ELSE IF ~from_utf8(p.bytes) THEN [panic |-> NotAString, ret |-> <<>>]
        ELSE [panic |-> NoPanic,
              ret |-> << [account EXCEPT !.username = u.bytes,
                                         !.password = p.bytes] >>]

\* ---------------------------------------------------------- collections

\* UnorderedMap::get, as the set of values found (empty for None).
MapHas(map, key) == key \in DOMAIN map

\* Mutant of MapInsert: a key already present keeps its old value.
MapInsert_KeepOld(map, key, value) ==
    [k \in DOMAIN map \cup {key} |->
        IF k \in DOMAIN map THEN map[k] ELSE value]

\* UnorderedMap::insert: insert or overwrite.
MapInsert(map, key, value) ==
    [k \in DOMAIN map \cup {key} |-> IF k = key THEN value ELSE map[k]]

\* UnorderedMap::remove: a no-op for an absent key.
MapRemove(map, key) == [k \in DOMAIN map \ {key} |-> map[k]]

\* The elements of an UnorderedSet, kept as its element vector.
Elements(set) == {set[i] : i \in 1..Len(set)}

\* Mutant of SetInsert: the element is pushed without the membership test.
SetInsert_AlwaysAppend(set, element) == Append(set, element)

\* UnorderedSet::insert: a new element goes to the end of the vector; an
\* element already present changes nothing.
SetInsert(set, element) ==
    IF element \in Elements(set) THEN set ELSE Append(set, element)

\* UnorderedSet::remove: swap_remove, the last element takes the place of the
\* removed one.
\* Mutant of SetRemove: the element stays in the set.
SetRemove_Noop(set, element) == set

SetRemove(set, element) ==
    IF element \notin Elements(set) THEN set
    ELSE
        LET i == CHOOSE j \in 1..Len(set) : set[j] = element
            moved == [set EXCEPT ![i] = set[Len(set)]]
        IN  SubSeq(moved, 1, Len(set) - 1)

\* ------------------------------------------------------------------ state

VARIABLES
    accounts_per_user,   \* user -> UnorderedSet of account ids
    accounts_by_id,      \* account id -> UserAccount, credentials encoded
    account_id_counter,  \* the last id handed out
    overflow_checks,     \* the build's overflow-checks setting
    call,                \* the last call and its arguments
    outcome              \* what the last call did: panic, result, transfers

contract == <<accounts_per_user, accounts_by_id, account_id_counter>>

vars == <<accounts_per_user, accounts_by_id, account_id_counter,
          overflow_checks, call, outcome>>

\* struct UserAccount
UserAccount(id, user_id, website, username, password) ==
    [id |-> id, user_id |-> user_id, website |-> website,
     username |-> username, password |-> password]

\* The arguments of a call; those a method does not take keep these fillers.
Call(method, user_id, website, username, password, account_id, deposit) ==
    [method |-> method, user_id |-> user_id, website |-> website,
     username |-> username, password |-> password,
     account_id |-> account_id, attached_deposit |-> deposit]

NoText == <<>>

\* What a call leaves behind: the panic message (NoPanic when it returned),
\* the required cost an InsufficientPayment panic reports, the records
\* returned (get_one_account: none or one), the count returned, and the
\* amounts transferred to the caller.  For add_account, `id` is its local
\* `id` once set and `found` whether its lookup found the pair.
Outcome(panic, required_cost, ret, count, transfers) ==
    [panic |-> panic, required_cost |-> required_cost, ret |-> ret,
     count |-> count, transfers |-> transfers, id |-> 0, found |-> FALSE]

\* PassManager::new
Init ==
    /\ accounts_per_user = <<>>
    /\ accounts_by_id = <<>>
    /\ account_id_counter = 0
    /\ overflow_checks \in BOOLEAN
    /\ call = Call("new", "", "", NoText, NoText, 0, 0)
    /\ outcome = Outcome(NoPanic, 0, <<>>, 0, <<>>)

\* ----------------------------------------------------------------- reads

RECURSIVE FindAccount(_, _, _)
\* The loop of get_one_account over the ids of one set, in iteration order.
FindAccount(table, ids, website) ==
    IF ids = <<>> THEN [panic |-> NoPanic, ret |-> <<>>]
    ELSE IF ~MapHas(table, Head(ids)) THEN [panic |-> UnwrapNone, ret |-> <<>>]
    ELSE IF table[Head(ids)].website = website
        THEN decode_credentials(table[Head(ids)])
    ELSE FindAccount(table, Tail(ids), website)

\* Mutant of get_one_account: a user without an entry is a panic, as in
\* get_accounts_per_user.
get_one_account_Expect(index, table, user_id, website) ==
    IF MapHas(index, user_id)
        THEN FindAccount(table, index[user_id], website)
    ELSE [panic |-> InvalidUserList, ret |-> <<>>]

\* PassManager::get_one_account
get_one_account(index, table, user_id, website) ==
    IF MapHas(index, user_id)
        THEN FindAccount(table, index[user_id], website)
    ELSE [panic |-> NoPanic, ret |-> <<>>]

RECURSIVE DecodeAll(_, _)
\* The map/collect of get_accounts_per_user over the ids of one set.
DecodeAll(table, ids) ==
    IF ids = <<>> THEN [panic |-> NoPanic, ret |-> <<>>]
    ELSE IF ~MapHas(table, Head(ids)) THEN [panic |-> UnwrapNone, ret |-> <<>>]
    ELSE
        LET acc == decode_credentials(table[Head(ids)])
            rest == DecodeAll(table, Tail(ids))
        IN  IF acc.panic # NoPanic THEN acc
            ELSE IF rest.panic # NoPanic THEN rest
            ELSE [panic |-> NoPanic, ret |-> acc.ret \o rest.ret]

\* PassManager::get_accounts_per_user
get_accounts_per_user(index, table, user_id) ==
    IF ~MapHas(index, user_id) THEN [panic |-> InvalidUserList, ret |-> <<>>]
    ELSE DecodeAll(table, index[user_id])

\* PassManager::get_users_count
get_users_count(index) == Cardinality(DOMAIN index)

\* ------------------------------------------------- the user index (writes)

\* PassManager::add_account_to_user
add_account_to_user(index, user_id, account_id) ==
    LET account_set == IF MapHas(index, user_id) THEN index[user_id] ELSE <<>>
    IN  MapInsert(index, user_id, SetInsert(account_set, account_id))

\* Mutant of remove_account_from_user: a user without an entry yields false
\* instead of a panic.
remove_account_from_user_NoExpect(index, user_id, account_id) ==
    IF ~MapHas(index, user_id)
        THEN [panic |-> NoPanic, index |-> index, removed |-> FALSE]
    ELSE
        LET account_set == SetRemove(index[user_id], account_id)
        IN  [panic |-> NoPanic,
             index |-> IF account_set = <<>>
                           THEN MapRemove(index, user_id)
                           ELSE MapInsert(index, user_id, account_set),
             removed |-> account_id \in Elements(index[user_id])]

\* Mutant of remove_account_from_user: the set is written back even when it
\* has become empty.
remove_account_from_user_KeepsEmpty(index, user_id, account_id) ==
    IF ~MapHas(index, user_id)
        THEN [panic |-> InvalidUserDetach, index |-> index, removed |-> FALSE]
    ELSE
        LET account_set == SetRemove(index[user_id], account_id)
        IN  [panic |-> NoPanic,
             index |-> MapInsert(index, user_id, account_set),
             removed |-> account_id \in Elements(index[user_id])]

\* PassManager::remove_account_from_user: the index after the call, whether
\* the id was removed, or the panic for a user without an entry.
remove_account_from_user(index, user_id, account_id) ==
    IF ~MapHas(index, user_id)
        THEN [panic |-> InvalidUserDetach, index |-> index, removed |-> FALSE]
    ELSE
        LET account_set == SetRemove(index[user_id], account_id)
        IN  [panic |-> NoPanic,
             index |-> IF account_set = <<>>
                           THEN MapRemove(index, user_id)
                           ELSE MapInsert(index, user_id, account_set),
             removed |-> account_id \in Elements(index[user_id])]

\* ------------------------------------------------------- storage accounting

\* Borsh size of a UserAccount: a u128 and four length-prefixed strings.
AccountBytes(account) ==
    16 + (4 + Len(account.user_id)) + (4 + Len(account.website))
       + (4 + Len(account.username)) + (4 + Len(account.password))

RECURSIVE TableBytes(_, _)
\* The bytes of the table entries under `ids`: index, key and value pair.
TableBytes(table, ids) ==
    IF ids = {} THEN 0
    ELSE LET id == CHOOSE x \in ids : TRUE
         IN  72 + 72 + (56 + AccountBytes(table[id]))
               + TableBytes(table, ids \ {id})

RECURSIVE IndexBytes(_, _)
\* The bytes of the index entries of `users`: index, key and value pair of
\* the map, and two pairs for each id of the user's set.
IndexBytes(index, users) ==
    IF users = {} THEN 0
    ELSE LET user_id == CHOOSE x \in users : TRUE
         IN  2 * (60 + Len(user_id)) + 138 + 194 * Len(index[user_id])
               + IndexBytes(index, users \ {user_id})

\* env::storage_usage(), counted from the empty instance: every key-value
\* pair the collections hold costs its key, its value and 40 bytes.
StorageUsage(index, table) ==
    TableBytes(table, DOMAIN table) + IndexBytes(index, DOMAIN index)

\* `env::storage_usage() - init_storage_used` on u64: when the usage shrank
\* the subtraction panics in a build with overflow checks and wraps in one
\* without.
StorageUsed(init_storage_used, storage_usage, checks) ==
    IF storage_usage >= init_storage_used
        THEN [panic |-> NoPanic, bytes |-> storage_usage - init_storage_used]
    ELSE IF checks THEN [panic |-> SubtractOverflow, bytes |-> 0]
    ELSE [panic |-> NoPanic,
          bytes |-> (storage_usage - init_storage_used) % StorageUsageModulus]

\* Mutant of Refund: a refund of exactly 1 is transferred too.
Refund_AtLeastOne(refund) == IF refund >= 1 THEN << refund >> ELSE <<>>

\* "Refund remaining yocto if greater than 1": the transfers a refund makes.
Refund(refund) == IF refund > 1 THEN << refund >> ELSE <<>>

\* ------------------------------------------------------------ add_account

\* Mutant of ResolveId: the lookup is ignored and every add gets a new id.
ResolveId_AlwaysNew(found, counter) ==
    [id |-> counter + 1, counter |-> counter + 1]

\* "Check if account is new or needs to be updated": the id the record gets
\* and the counter after it.
ResolveId(found, counter) ==
    IF found # <<>>
        THEN [id |-> found[1].id, counter |-> counter]
        ELSE [id |-> counter + 1, counter |-> counter + 1]

\* The contract after a call, with the call's outcome.
Effect(index, table, counter, result) ==
    [index |-> index, table |-> table, counter |-> counter, outcome |-> result]

Panicked(index, table, counter, panic) ==
    Effect(index, table, counter, Outcome(panic, 0, <<>>, 0, <<>>))

\* add_account up to the two writes: the lookup, the id, the encoded record,
\* the insert into the table and the attach to the user's set.
AddWrites(index, table, counter, c) ==
    LET found == get_one_account(index, table, c.user_id, c.website)
        r == ResolveId(found.ret, counter)
        account == UserAccount(r.id, c.user_id, c.website,
                               encode(c.username), encode(c.password))
    IN  IF found.panic # NoPanic
            THEN [panic |-> found.panic, id |-> 0, found |-> FALSE,
                  index |-> index, table |-> table, counter |-> counter]
            ELSE [panic |-> NoPanic, id |-> r.id, found |-> found.ret # <<>>,
                  index |-> add_account_to_user(index, c.user_id, r.id),
                  table |-> MapInsert(table, r.id, account),
                  counter |-> r.counter]

\* Mutant of UndoAdd: the record is removed from the table but its id stays
\* in the user's set.
UndoAdd_NoDetach(index, table, counter, user_id, id, required_cost) ==
    Effect(index, MapRemove(table, id), counter,
           Outcome(InsufficientPayment, required_cost, <<>>, 0, <<>>))

\* "Remove previously added credentials and panic if attached deposit <
\* required cost"
UndoAdd(index, table, counter, user_id, id, required_cost) ==
    LET detached == remove_account_from_user(index, user_id, id)
    IN  Effect(detached.index, MapRemove(table, id), counter,
               Outcome(IF detached.panic # NoPanic THEN detached.panic
                                                   ELSE InsufficientPayment,
                       required_cost, <<>>, 0, <<>>))

\* add_account from the measurement on: the storage used, its price, the
\* undo when the deposit does not cover it, the refund when it does.
AddSettle(init_storage_used, w, checks, c) ==
    LET used == StorageUsed(init_storage_used,
                            StorageUsage(w.index, w.table), checks)
        required_cost == ByteCost * used.bytes
    IN  IF used.panic # NoPanic
            THEN Panicked(w.index, w.table, w.counter, used.panic)
        ELSE IF required_cost > c.attached_deposit
            THEN UndoAdd(w.index, w.table, w.counter, c.user_id, w.id,
                         required_cost)
        ELSE Effect(w.index, w.table, w.counter,
                    Outcome(NoPanic, 0, <<>>, 0,
                            Refund(c.attached_deposit - required_cost)))

\* Mutant of add_account: the assertion on the attached deposit is gone.
add_account_NoDepositCheck(index, table, counter, checks, c) ==
    LET w == AddWrites(index, table, counter, c)
    IN  IF w.panic # NoPanic
            THEN Panicked(index, table, counter, w.panic)
            ELSE [AddSettle(StorageUsage(index, table), w, checks, c)
                    EXCEPT !.outcome.id = w.id, !.outcome.found = w.found]

\* Mutant of add_account: init_storage_used is read after the writes, so
\* the call measures no storage and charges nothing.
add_account_MeasuresLate(index, table, counter, checks, c) ==
    IF ~(c.attached_deposit >= 1)
        THEN Panicked(index, table, counter, NoDeposit)
    ELSE
        LET w == AddWrites(index, table, counter, c)
        IN  IF w.panic # NoPanic
                THEN Panicked(index, table, counter, w.panic)
                ELSE [AddSettle(StorageUsage(w.index, w.table), w, checks, c)
                        EXCEPT !.outcome.id = w.id, !.outcome.found = w.found]

\* PassManager::add_account
add_account(index, table, counter, checks, c) ==
    IF ~(c.attached_deposit >= 1)
        THEN Panicked(index, table, counter, NoDeposit)
    ELSE
        LET w == AddWrites(index, table, counter, c)
        IN  IF w.panic # NoPanic
                THEN Panicked(index, table, counter, w.panic)
                ELSE [AddSettle(StorageUsage(index, table), w, checks, c)
                        EXCEPT !.outcome.id = w.id, !.outcome.found = w.found]

\* --------------------------------------------------------- remove_account

\* Mutant of remove_account: the id is detached from the user's set but the
\* record stays in the table.
remove_account_KeepsRecord(index, table, counter, checks, c) ==
    LET detached == remove_account_from_user(index, c.user_id, c.account_id)
        released == StorageUsed(StorageUsage(detached.index, table),
                                StorageUsage(index, table), checks)
    IN  IF detached.panic # NoPanic
            THEN Panicked(index, table, counter, detached.panic)
        ELSE IF ~detached.removed
            THEN Panicked(detached.index, table, counter, AccountNotFound)
        ELSE IF released.panic # NoPanic
            THEN Panicked(detached.index, table, counter, released.panic)
        ELSE Effect(detached.index, table, counter,
                    Outcome(NoPanic, 0, <<>>, 0,
                            Refund(ByteCost * released.bytes)))

\* Mutant of remove_account: the record is removed from the table before
\* the check that the id was in the user's set.
remove_account_DeleteFirst(index, table, counter, checks, c) ==
    LET detached == remove_account_from_user(index, c.user_id, c.account_id)
        table1 == MapRemove(table, c.account_id)
        released == StorageUsed(StorageUsage(detached.index, table1),
                                StorageUsage(index, table), checks)
    IN  IF detached.panic # NoPanic
            THEN Panicked(index, table, counter, detached.panic)
        ELSE IF ~detached.removed
            THEN Panicked(detached.index, table1, counter, AccountNotFound)
        ELSE IF released.panic # NoPanic
            THEN Panicked(detached.index, table1, counter, released.panic)
        ELSE Effect(detached.index, table1, counter,
                    Outcome(NoPanic, 0, <<>>, 0,
                            Refund(ByteCost * released.bytes)))

\* Mutant of remove_account: the released storage is measured before the
\* record is removed from the table.
remove_account_MeasuresEarly(index, table, counter, checks, c) ==
    LET detached == remove_account_from_user(index, c.user_id, c.account_id)
        table1 == MapRemove(table, c.account_id)
        released == StorageUsed(StorageUsage(detached.index, table),
                                StorageUsage(index, table), checks)
    IN  IF detached.panic # NoPanic
            THEN Panicked(index, table, counter, detached.panic)
        ELSE IF ~detached.removed
            THEN Panicked(detached.index, table, counter, AccountNotFound)
        ELSE IF released.panic # NoPanic
            THEN Panicked(detached.index, table1, counter, released.panic)
        ELSE Effect(detached.index, table1, counter,
                    Outcome(NoPanic, 0, <<>>, 0,
                            Refund(ByteCost * released.bytes)))

\* PassManager::remove_account
remove_account(index, table, counter, checks, c) ==
    LET detached == remove_account_from_user(index, c.user_id, c.account_id)
        table1 == MapRemove(table, c.account_id)
        released == StorageUsed(StorageUsage(detached.index, table1),
                                StorageUsage(index, table), checks)
    IN  IF detached.panic # NoPanic
            THEN Panicked(index, table, counter, detached.panic)
        ELSE IF ~detached.removed
            THEN Panicked(detached.index, table, counter, AccountNotFound)
        ELSE IF released.panic # NoPanic
            THEN Panicked(detached.index, table1, counter, released.panic)
        ELSE Effect(detached.index, table1, counter,
                    Outcome(NoPanic, 0, <<>>, 0,
                            Refund(ByteCost * released.bytes)))

\* ---------------------------------------------------------------- actions

\* The prepayments tried for an add whose storage costs `price`: none, the
\* ones around the price (one short, exact, one and two over) and the ample
\* one of the unit tests.
Deposits(price) ==
    {0, AmpleBytes * ByteCost}
        \cup {d \in {price - 1, price, price + 1, price + 2} : d >= 1}

\* The price of the bytes an add would consume (zero when it frees bytes).
PriceOfAdd(index, table, counter, c) ==
    LET w == AddWrites(index, table, counter, c)
        delta == StorageUsage(w.index, w.table) - StorageUsage(index, table)
    IN  IF delta > 0 THEN ByteCost * delta ELSE 0

Apply(c, e) ==
    /\ e.counter <= MaxId
    /\ accounts_per_user' = e.index
    /\ accounts_by_id' = e.table
    /\ account_id_counter' = e.counter
    /\ call' = c
    /\ outcome' = e.outcome
    /\ UNCHANGED overflow_checks

AddAccount ==
    \E user_id \in Users, website \in Websites, credentials \in Credentials :
        LET c0 == Call("add_account", user_id, website, credentials[1],
                       credentials[2], 0, 0)
        IN  \E deposit \in Deposits(PriceOfAdd(accounts_per_user,
                                   accounts_by_id, account_id_counter, c0)) :
                LET c == [c0 EXCEPT !.attached_deposit = deposit]
                IN  Apply(c, add_account(accounts_per_user, accounts_by_id,
                                         account_id_counter,
                                         overflow_checks, c))

RemoveAccount ==
    \E user_id \in Users, account_id \in AccountIds :
        LET c == Call("remove_account", user_id, "", NoText, NoText,
                      account_id, 0)
        IN  Apply(c, remove_account(accounts_per_user, accounts_by_id,
                                    account_id_counter, overflow_checks, c))

GetOneAccount ==
    \E user_id \in Users, website \in Websites :
        LET c == Call("get_one_account", user_id, website, NoText, NoText,
                      0, 0)
            got == get_one_account(accounts_per_user, accounts_by_id,
                                   user_id, website)
        IN  Apply(c, Effect(accounts_per_user, accounts_by_id,
                            account_id_counter,
                            Outcome(got.panic, 0, got.ret, 0, <<>>)))

GetAccountsPerUser ==
    \E user_id \in Users :
        LET c == Call("get_accounts_per_user", user_id, "", NoText, NoText,
                      0, 0)
            got == get_accounts_per_user(accounts_per_user, accounts_by_id,
                                         user_id)
        IN  Apply(c, Effect(accounts_per_user, accounts_by_id,
                            account_id_counter,
                            Outcome(got.panic, 0, got.ret, 0, <<>>)))

GetUsersCount ==
    LET c == Call("get_users_count", "", "", NoText, NoText, 0, 0)
    IN  Apply(c, Effect(accounts_per_user, accounts_by_id, account_id_counter,
                        Outcome(NoPanic, 0, <<>>,
                                get_users_count(accounts_per_user), <<>>)))

Next ==
    \/ AddAccount
    \/ RemoveAccount
    \/ GetOneAccount
    \/ GetAccountsPerUser
    \/ GetUsersCount

Spec == Init /\ [][Next]_vars

\* ----------------------------------------------------------------- claims

\* The call just made (in the primed state) was this method.
Made(method) == call'.method = method

Returned == outcome'.panic = NoPanic

\* The decoded record get_one_account finds for the pair now, as a sequence.
Lookup(user_id, website) ==
    get_one_account(accounts_per_user, accounts_by_id, user_id, website)

\* C1: every add_account that fails with InsufficientPayment leaves the
\* table, the index and the id counter exactly as they were before the call.
RollbackExactness ==
    [][(Made("add_account") /\ outcome'.panic = InsufficientPayment)
          => contract' = contract]_vars

\* What the undo does restore when the pair was new: the table and the
\* index, but not the counter.
UndoOfNewRestoresCollections ==
    [][(Made("add_account") /\ outcome'.panic = InsufficientPayment
          /\ ~outcome'.found)
          => /\ accounts_by_id' = accounts_by_id
             /\ accounts_per_user' = accounts_per_user
             /\ account_id_counter' = account_id_counter + 1]_vars

\* C2: every id in every user's set has a record in the table whose user_id
\* is that user, no id is in the sets of two users, and the unwrap() of the
\* table lookup never fails in get_one_account or get_accounts_per_user.
ReferentialIntegrity ==
    /\ \A u \in DOMAIN accounts_per_user :
         \A id \in Elements(accounts_per_user[u]) :
            /\ MapHas(accounts_by_id, id)
            /\ accounts_by_id[id].user_id = u
    /\ \A u1, u2 \in DOMAIN accounts_per_user :
         u1 # u2 => Elements(accounts_per_user[u1])
                      \cap Elements(accounts_per_user[u2]) = {}
    /\ \A u \in Users :
         /\ get_accounts_per_user(accounts_per_user, accounts_by_id, u).panic
              # UnwrapNone
         /\ \A w \in Websites : Lookup(u, w).panic # UnwrapNone
    /\ outcome.panic # UnwrapNone

\* An underpaid add_account has just been undone on an instance that holds
\* records: its id is in neither the table nor the set of its user.
ReferentialIntegrityWitness ==
    /\ DOMAIN accounts_per_user # {}
    /\ call.method = "add_account"
    /\ outcome.panic = InsufficientPayment
    /\ ~MapHas(accounts_by_id, outcome.id)
    /\ \A u \in DOMAIN accounts_per_user :
          outcome.id \notin Elements(accounts_per_user[u])

\* C3: a successful add_account for a pair that already has a record keeps
\* the record's id, replaces its username and password by the new ones, and
\* leaves the user's id set, the counter, the number of records and
\* get_users_count unchanged.
IdempotentUpsert ==
    [][(Made("add_account") /\ Returned
          /\ Lookup(call'.user_id, call'.website).ret # <<>>)
          => LET old == Lookup(call'.user_id, call'.website).ret[1]
                 new == get_one_account(accounts_per_user', accounts_by_id',
                                        call'.user_id, call'.website)
             IN  /\ new.panic = NoPanic
                 /\ new.ret # <<>>
                 /\ new.ret[1].id = old.id
                 /\ new.ret[1].username = call'.username
                 /\ new.ret[1].password = call'.password
                 /\ MapHas(accounts_by_id', old.id)
                 /\ accounts_by_id'[old.id].username = encode(call'.username)
                 /\ accounts_per_user' = accounts_per_user
                 /\ account_id_counter' = account_id_counter
                 /\ Cardinality(DOMAIN accounts_by_id')
                      = Cardinality(DOMAIN accounts_by_id)
                 /\ get_users_count(accounts_per_user')
                      = get_users_count(accounts_per_user)]_vars

\* An add_account that found its pair has returned, and the record now holds
\* the credentials of the call.
IdempotentUpsertWitness ==
    /\ call.method = "add_account"
    /\ outcome.panic = NoPanic
    /\ outcome.found
    /\ Lookup(call.user_id, call.website).ret # <<>>
    /\ Lookup(call.user_id, call.website).ret[1].password = call.password

\* The positions of a user's set whose record carries the website.
Matches(u, w) ==
    {i \in 1..Len(accounts_per_user[u]) :
        /\ MapHas(accounts_by_id, accounts_per_user[u][i])
        /\ accounts_by_id[accounts_per_user[u][i]].website = w}

Reverse(seq) == [i \in 1..Len(seq) |-> seq[Len(seq) + 1 - i]]

\* C4: for each user and website at most one id of the user's set refers to
\* a record with that website, and get_one_account finds the same record
\* whatever the order the set iterates in.
UniquePerUserWebsite ==
    \A u \in DOMAIN accounts_per_user : \A w \in Websites :
        /\ Cardinality(Matches(u, w)) <= 1
        /\ get_one_account([accounts_per_user EXCEPT ![u] = Reverse(@)],
                           accounts_by_id, u, w) = Lookup(u, w)

\* A user owns two records and an add_account for one of them has just
\* updated it in place.
UniquePerUserWebsiteWitness ==
    /\ call.method = "add_account"
    /\ outcome.panic = NoPanic
    /\ outcome.found
    /\ MapHas(accounts_per_user, call.user_id)
    /\ Len(accounts_per_user[call.user_id]) = 2

\* An add_account that leaves a newly created record in the table.
Created ==
    /\ Made("add_account")
    /\ ~outcome'.found
    /\ outcome'.id # 0
    /\ MapHas(accounts_by_id', outcome'.id)

\* C5: the counter never decreases, grows by exactly one for each add_account
\* that leaves a newly created record in the table and by zero for every
\* other call, and a new record's id is greater than every id given before.
IdAllocation ==
    [][/\ account_id_counter' >= account_id_counter
       /\ account_id_counter'
            = IF Created THEN account_id_counter + 1 ELSE account_id_counter
       /\ Created => outcome'.id > account_id_counter]_vars

\* What holds of the counter: it never decreases, it grows by exactly one in
\* every add_account that did not find its pair and got past the deposit
\* check, whether the call then succeeds or fails, and by zero otherwise.
CounterGrowsOnEveryNewAdd ==
    [][account_id_counter'
         = IF Made("add_account") /\ outcome'.id # 0 /\ ~outcome'.found
              THEN account_id_counter + 1 ELSE account_id_counter]_vars

\* C6: an add_account with an attached deposit of zero fails with NoDeposit
\* before any mutation: the table, the index, the counter and
\* get_users_count are unchanged and no transfer is issued.
NoDepositFailsFirst ==
    [][(Made("add_account") /\ call'.attached_deposit = 0)
          => /\ outcome'.panic = NoDeposit
             /\ contract' = contract
             /\ get_users_count(accounts_per_user')
                  = get_users_count(accounts_per_user)
             /\ outcome'.transfers = <<>>]_vars

\* An add_account without deposit has been refused on an instance that holds
\* records, for a pair that has none.
NoDepositWitness ==
    /\ call.method = "add_account"
    /\ call.attached_deposit = 0
    /\ outcome.panic = NoDeposit
    /\ DOMAIN accounts_by_id # {}
    /\ Lookup(call.user_id, call.website).ret = <<>>

\* The id of the record the pair has now, if any.
IdsOf(user_id, website) ==
    {id \in DOMAIN accounts_by_id :
        /\ accounts_by_id[id].user_id = user_id
        /\ accounts_by_id[id].website = website}

\* The call just made was a successful add or remove for the pair.
WroteOrRemoved(user_id, website) ==
    /\ Returned
    /\ call'.user_id = user_id
    /\ \/ Made("add_account") /\ call'.website = website
       \/ Made("remove_account")
            /\ call'.account_id \in IdsOf(user_id, website)

\* C7: after a successful add_account(user, website, U, P), get_one_account
\* returns exactly U and P, and keeps returning them until the next
\* successful add or remove for that pair.
StoreReadRoundTrip ==
    [][/\ (Made("add_account") /\ Returned)
            => LET got == get_one_account(accounts_per_user', accounts_by_id',
                                          call'.user_id, call'.website)
               IN  /\ got.panic = NoPanic
                   /\ got.ret # <<>>
                   /\ got.ret[1].username = call'.username
                   /\ got.ret[1].password = call'.password
       /\ \A u \in Users, w \in Websites :
            (Lookup(u, w).ret # <<>> /\ ~WroteOrRemoved(u, w))
               => get_one_account(accounts_per_user', accounts_by_id', u, w)
                    = Lookup(u, w)]_vars

\* The part of C7 that holds: what a successful add_account wrote is what
\* get_one_account reads back right after it.
ReadsBackWhatWasWritten ==
    [][(Made("add_account") /\ Returned)
          => LET got == get_one_account(accounts_per_user', accounts_by_id',
                                        call'.user_id, call'.website)
             IN  /\ got.panic = NoPanic
                 /\ got.ret # <<>>
                 /\ got.ret[1].username = call'.username
                 /\ got.ret[1].password = call'.password]_vars

\* C8: remove_account fails with "Invalid User" exactly when the user has no
\* index entry and with "Account not found" exactly when the user has an
\* entry whose set does not hold the id; both leave the table, the index and
\* the counter unchanged and issue no refund.
RemoveErrors ==
    [][Made("remove_account")
          => LET known == MapHas(accounts_per_user, call'.user_id)
                 owned == known /\ call'.account_id
                              \in Elements(accounts_per_user[call'.user_id])
             IN  /\ outcome'.panic = InvalidUserDetach <=> ~known
                 /\ outcome'.panic = AccountNotFound <=> (known /\ ~owned)
                 /\ ~owned => /\ contract' = contract
                              /\ outcome'.transfers = <<>>]_vars

\* remove_account has answered "Account not found" for an id that belongs to
\* another user.
RemoveErrorsWitness ==
    /\ call.method = "remove_account"
    /\ outcome.panic = AccountNotFound
    /\ MapHas(accounts_by_id, call.account_id)
    /\ accounts_by_id[call.account_id].user_id # call.user_id

\* C9: get_one_account never errors and returns absent when the user has no
\* entry or no record with the website; get_accounts_per_user fails with
\* "Invalid user" exactly when the user has no entry; neither changes state.
ReadAsymmetry ==
    [][/\ Made("get_one_account")
            => /\ outcome'.panic = NoPanic
               /\ outcome'.ret = <<>>
                    <=> \/ ~MapHas(accounts_per_user, call'.user_id)
                        \/ Matches(call'.user_id, call'.website) = {}
               /\ contract' = contract
       /\ Made("get_accounts_per_user")
            => /\ outcome'.panic = InvalidUserList
                    <=> ~MapHas(accounts_per_user, call'.user_id)
               /\ outcome'.panic \in {NoPanic, InvalidUserList}
               /\ contract' = contract]_vars

\* get_one_account has returned absent for a user without an entry while
\* another user owns records.
ReadAsymmetryWitness ==
    /\ call.method = "get_one_account"
    /\ ~MapHas(accounts_per_user, call.user_id)
    /\ DOMAIN accounts_per_user # {}
    /\ outcome.panic = NoPanic
    /\ outcome.ret = <<>>

\* The list get_accounts_per_user returns for a user now.
Listing(u) == get_accounts_per_user(accounts_per_user, accounts_by_id, u)

\* C10: for every user with an entry, get_accounts_per_user returns exactly
\* one decoded record per id of the user's set, each the user's own; when
\* every id handed out so far is a live record of one user (n successful
\* adds on a fresh instance), the ids returned are 1..n in order.
ListContent ==
    /\ \A u \in DOMAIN accounts_per_user :
         LET ids == accounts_per_user[u]
             listed == Listing(u)
         IN  /\ listed.panic = NoPanic
             /\ Len(listed.ret) = Cardinality(Elements(ids))
             /\ \A i \in 1..Len(listed.ret) :
                  /\ listed.ret[i].id = ids[i]
                  /\ listed.ret[i].user_id = u
                  /\ MapHas(accounts_by_id, ids[i])
                  /\ listed.ret[i].website = accounts_by_id[ids[i]].website
                  /\ encode(listed.ret[i].username)
                       = accounts_by_id[ids[i]].username
                  /\ encode(listed.ret[i].password)
                       = accounts_by_id[ids[i]].password
             /\ (/\ DOMAIN accounts_per_user = {u}
                 /\ account_id_counter = Cardinality(DOMAIN accounts_by_id))
                  => [i \in 1..Len(listed.ret) |-> listed.ret[i].id]
                       = [i \in 1..account_id_counter |-> i]
    /\ (call.method = "get_accounts_per_user" /\ outcome.panic = NoPanic)
         => outcome.ret = Listing(call.user_id).ret

\* get_accounts_per_user has returned the two records, ids 1 and 2, of a
\* user who added two websites to a fresh instance.
ListContentWitness ==
    /\ call.method = "get_accounts_per_user"
    /\ outcome.panic = NoPanic
    /\ account_id_counter = 2
    /\ Len(outcome.ret) = 2
    /\ outcome.ret[1].id = 1
    /\ outcome.ret[2].id = 2
    /\ outcome.ret[1].website # outcome.ret[2].website

\* env::storage_usage() before and after the call just made.
UsageBefore == StorageUsage(accounts_per_user, accounts_by_id)

UsageAfter == StorageUsage(accounts_per_user', accounts_by_id')

\* The prepayment of the call just made less the price of the bytes it
\* consumed.
Surplus == call'.attached_deposit - ByteCost * (UsageAfter - UsageBefore)

\* C11: a successful add_account whose prepayment exceeds the price of the
\* bytes consumed transfers exactly the surplus to the caller for every
\* surplus of at least 1 yoctoNEAR, and transfers nothing for a surplus of 0.
SurplusRefund ==
    [][(Made("add_account") /\ Returned)
          => /\ Surplus >= 1 => outcome'.transfers = << Surplus >>
             /\ Surplus = 0 => outcome'.transfers = <<>>]_vars

\* C11 as the code has it ("Refund remaining yocto if greater than 1"): the
\* surplus is never negative, a surplus above 1 is transferred exactly, and
\* a surplus of 0 or 1 is kept.
SurplusRefundAboveOne ==
    [][(Made("add_account") /\ Returned)
          => /\ Surplus >= 0
             /\ Surplus > 1 => outcome'.transfers = << Surplus >>
             /\ Surplus \in {0, 1} => outcome'.transfers = <<>>]_vars

\* The price of the bytes the record `id` of `user_id` occupies now, with
\* its place in the set and, when it is the only one, the user's entry.
PriceOfRecord(user_id, id) ==
    ByteCost * (StorageUsage(accounts_per_user, accounts_by_id)
        - StorageUsage(remove_account_from_user(accounts_per_user, user_id,
                                                id).index,
                       MapRemove(accounts_by_id, id)))

\* An add_account that created a record with one yoctoNEAR more than its
\* price attached has returned without a transfer.
SurplusRefundWitness ==
    /\ call.method = "add_account"
    /\ outcome.panic = NoPanic
    /\ ~outcome.found
    /\ call.attached_deposit = PriceOfRecord(call.user_id, outcome.id) + 1
    /\ outcome.transfers = <<>>

\* C12: every successful remove_account transfers to the caller exactly
\* byte_cost * (storage usage before - storage usage after), with nothing
\* attached, unless that amount is not greater than 1; a remove_account that
\* fails has changed nothing, so there is nothing to roll back.
RemovalRefund ==
    [][Made("remove_account")
          => LET refund == ByteCost * (UsageBefore - UsageAfter)
             IN  /\ call'.attached_deposit = 0
                 /\ Returned
                      => /\ refund >= 0
                         /\ outcome'.transfers
                              = IF refund > 1 THEN << refund >> ELSE <<>>
                 /\ ~Returned
                      => /\ contract' = contract
                         /\ outcome'.transfers = <<>>]_vars

\* A remove_account has removed the last record of a user and transferred
\* the price of the bytes of the record, its set entry and the user's entry.
RemovalRefundWitness ==
    /\ call.method = "remove_account"
    /\ outcome.panic = NoPanic
    /\ ~MapHas(accounts_per_user, call.user_id)
    /\ ~MapHas(accounts_by_id, call.account_id)
    /\ Len(outcome.transfers) = 1
    /\ outcome.transfers[1] > ByteCost * 194

\* The users that own at least one record of the table.
Owners == {accounts_by_id[id].user_id : id \in DOMAIN accounts_by_id}

\* C13: no user's index entry holds an empty id set, and get_users_count is
\* the number of users that own at least one record.
NoEmptySets ==
    /\ \A u \in DOMAIN accounts_per_user : accounts_per_user[u] # <<>>
    /\ get_users_count(accounts_per_user) = Cardinality(Owners)
    /\ call.method = "get_users_count" => outcome.count = Cardinality(Owners)

\* The last account of a user has just been removed, by remove_account or
\* by the undo of add_account, while another user still owns one.
NoEmptySetsWitness ==
    /\ \/ call.method = "remove_account" /\ outcome.panic = NoPanic
       \/ call.method = "add_account" /\ outcome.panic = InsufficientPayment
    /\ ~MapHas(accounts_per_user, call.user_id)
    /\ get_users_count(accounts_per_user) = 1

\* The call just made was one of the two that write.
MadeWrite == Made("add_account") \/ Made("remove_account")

\* The write the call just made asked for is in place: the record of the
\* add is in the table under the id attached to its user, the record of the
\* remove is in neither the table nor the user's set.
Committed ==
    /\ Made("add_account")
         => /\ MapHas(accounts_by_id', outcome'.id)
            /\ accounts_by_id'[outcome'.id]
                 = UserAccount(outcome'.id, call'.user_id, call'.website,
                               encode(call'.username), encode(call'.password))
            /\ MapHas(accounts_per_user', call'.user_id)
            /\ outcome'.id \in Elements(accounts_per_user'[call'.user_id])
    /\ Made("remove_account")
         => /\ ~MapHas(accounts_by_id', call'.account_id)
            /\ \A u \in DOMAIN accounts_per_user' :
                 call'.account_id \notin Elements(accounts_per_user'[u])

\* C14: an add_account or remove_account issues at most one transfer, none
\* when it ends in an error, and ends either fully committed or, on an
\* error, fully reverted to the state before the call.
AllOrNothing ==
    [][MadeWrite
          => /\ Len(outcome'.transfers) <= 1
             /\ Returned => Committed
             /\ ~Returned => /\ outcome'.transfers = <<>>
                             /\ contract' = contract]_vars

\* The part of C14 that holds: at most one transfer, none on an error, and a
\* call that returns has committed its write.
TransferOnlyOnSuccess ==
    [][MadeWrite
          => /\ Len(outcome'.transfers) <= 1
             /\ Returned => Committed
             /\ ~Returned => outcome'.transfers = <<>>]_vars

\* C15: every record of the table is stored under its own id, that id is in
\* the set of the record's user, and the record is in the list
\* get_accounts_per_user returns for that user.
NoOrphans ==
    \A id \in DOMAIN accounts_by_id :
        LET acc == accounts_by_id[id]
        IN  /\ acc.id = id
            /\ MapHas(accounts_per_user, acc.user_id)
            /\ id \in Elements(accounts_per_user[acc.user_id])
            /\ Listing(acc.user_id).panic = NoPanic
            /\ \E i \in 1..Len(Listing(acc.user_id).ret) :
                 LET listed == Listing(acc.user_id).ret[i]
                 IN  /\ listed.id = id
                     /\ listed.website = acc.website
                     /\ encode(listed.username) = acc.username
                     /\ encode(listed.password) = acc.password

\* A remove_account succeeded after every id was handed out, and the records
\* it left behind are all stored under their id and attached to their user.
NoOrphansWitness ==
    /\ call.method = "remove_account"
    /\ outcome.panic = NoPanic
    /\ DOMAIN accounts_by_id # {}
    /\ account_id_counter = MaxId
    /\ NoOrphans

\* C16: an add_account for a pair that already has a record, failing with
\* InsufficientPayment, deletes nothing: the old record is still in the
\* table with its username and password, its id is still in the user's
\* set, and get_one_account returns what it returned before the call.
FailedUpdateKeepsOld ==
    [][(/\ Made("add_account")
        /\ outcome'.panic = InsufficientPayment
        /\ outcome'.found)
          => LET id == outcome'.id
             IN  /\ MapHas(accounts_by_id', id)
                 /\ accounts_by_id'[id] = accounts_by_id[id]
                 /\ MapHas(accounts_per_user', call'.user_id)
                 /\ id \in Elements(accounts_per_user'[call'.user_id])
                 /\ get_one_account(accounts_per_user', accounts_by_id',
                                    call'.user_id, call'.website)
                      = Lookup(call'.user_id, call'.website)]_vars

\* The call just made was an add_account with a deposit for a pair that has
\* a record.
MadeUpdate ==
    /\ Made("add_account")
    /\ call'.attached_deposit >= 1
    /\ IdsOf(call'.user_id, call'.website) # {}

\* The signed byte delta of that update: the size of the record it writes
\* minus the size of the record it replaces.
SignedDelta ==
    LET old == accounts_by_id[CHOOSE id \in IdsOf(call'.user_id,
                                                  call'.website) : TRUE]
    IN  AccountBytes(UserAccount(old.id, call'.user_id, call'.website,
                                 encode(call'.username),
                                 encode(call'.password)))
          - AccountBytes(old)

\* C17: an update that replaces a record with one of equal or smaller size
\* costs nothing: with any deposit of at least 1 it succeeds, the new
\* record is stored, and it neither underflows nor is taken for an
\* insufficient payment.
ShrinkingUpdateIsFree ==
    [][(MadeUpdate /\ SignedDelta <= 0)
          => /\ outcome'.panic \notin {SubtractOverflow, InsufficientPayment}
             /\ Returned
             /\ Committed]_vars

\* What the code does for C17: an update of equal size succeeds and refunds
\* the whole deposit above 1; a shrinking update fails, with the overflow
\* panic in a build that checks and as an insufficient payment in one that
\* wraps.
UnsignedDelta ==
    [][MadeUpdate
          => /\ SignedDelta = 0
                  => /\ Returned
                     /\ outcome'.transfers = Refund(call'.attached_deposit)
             /\ SignedDelta < 0
                  => outcome'.panic = IF overflow_checks
                                         THEN SubtractOverflow
                                         ELSE InsufficientPayment]_vars

\* The state is the one a successful remove_account left.
Removed == call.method = "remove_account" /\ outcome.panic = NoPanic

\* C18: a successful remove_account(user, id) leaves the record in neither
\* the table nor any set and the read of its pair absent; the same call
\* made again right after fails and changes nothing, with AccountNotFound
\* when the user still owns an account and with Invalid User otherwise; a
\* pair that reads absent reads present again only after a successful
\* add_account for that pair, whose id is above every id handed out before.
RemovalIsFinal ==
    [][/\ (Made("remove_account") /\ Returned)
            => LET id == call'.account_id
               IN  /\ MapHas(accounts_by_id, id)
                   /\ ~MapHas(accounts_by_id', id)
                   /\ \A u \in DOMAIN accounts_per_user' :
                        id \notin Elements(accounts_per_user'[u])
                   /\ get_one_account(accounts_per_user', accounts_by_id',
                                      call'.user_id,
                                      accounts_by_id[id].website)
                        = [panic |-> NoPanic, ret |-> <<>>]
       /\ (/\ Removed
           /\ Made("remove_account")
           /\ call'.user_id = call.user_id
           /\ call'.account_id = call.account_id)
            => /\ outcome'.panic = IF MapHas(accounts_per_user, call.user_id)
                                      THEN AccountNotFound
                                      ELSE InvalidUserDetach
               /\ contract' = contract
       /\ \A u \in Users, w \in Websites :
            (/\ Lookup(u, w).ret = <<>>
             /\ get_one_account(accounts_per_user', accounts_by_id',
                                u, w).ret # <<>>)
              => /\ Made("add_account") /\ Returned
                 /\ call'.user_id = u /\ call'.website = w
                 /\ outcome'.id = account_id_counter'
                 /\ account_id_counter' > account_id_counter
                 /\ \A id \in DOMAIN accounts_by_id : id < outcome'.id]_vars

\* A remove_account succeeded for a user who still owns another account:
\* the record is gone, and the same call made again would find the user
\* but not the id.
RemovalIsFinalWitness ==
    /\ Removed
    /\ MapHas(accounts_per_user, call.user_id)
    /\ ~MapHas(accounts_by_id, call.account_id)
    /\ call.account_id \notin Elements(accounts_per_user[call.user_id])
    /\ outcome.transfers # <<>>

\* What the call just made paid in: the deposit of an add_account that
\* returned (the deposit of a failed call goes back to the caller).
PaidIn == IF Made("add_account") /\ Returned THEN call'.attached_deposit ELSE 0

\* What the call just made paid out: the amounts of its transfers.
PaidOut == IF outcome'.transfers = <<>> THEN 0 ELSE outcome'.transfers[1]

\* C19: every call adds to the amount the contract retains (deposits of
\* successful adds minus refunds) at least the price of the bytes it adds
\* to the storage, and a call that releases storage pays out at most their
\* price. Summed from the empty instance, where both are 0, the amount
\* retained is at least ByteCost times the storage in use, hence never
\* negative.
PaymentConservation ==
    [][/\ Len(outcome'.transfers) <= 1
       /\ PaidIn - PaidOut >= ByteCost * (UsageAfter - UsageBefore)
       /\ UsageAfter >= 0]_vars

\* An add_account for a second record returned with a refund: the contract
\* kept exactly the price of the new record and still holds the first.
PaymentConservationWitness ==
    /\ call.method = "add_account"
    /\ outcome.panic = NoPanic
    /\ ~outcome.found
    /\ Cardinality(DOMAIN accounts_by_id) = 2
    /\ outcome.transfers
         = << call.attached_deposit - PriceOfRecord(call.user_id, outcome.id) >>

\* C20: an add_account or remove_account made for one user, returning or
\* not, leaves every other user's set as it was, leaves every record owned
\* by another user in the table unchanged, and creates no record owned by
\* another user.
PerUserIsolation ==
    [][MadeWrite
          => \A v \in Users \ {call'.user_id} :
               /\ MapHas(accounts_per_user', v) = MapHas(accounts_per_user, v)
               /\ MapHas(accounts_per_user, v)
                    => accounts_per_user'[v] = accounts_per_user[v]
               /\ \A id \in DOMAIN accounts_by_id :
                    accounts_by_id[id].user_id = v
                      => /\ MapHas(accounts_by_id', id)
                         /\ accounts_by_id'[id] = accounts_by_id[id]
               /\ \A id \in DOMAIN accounts_by_id' :
                    accounts_by_id'[id].user_id = v
                      => MapHas(accounts_by_id, id)]_vars

\* A remove_account named an id owned by another user: it failed with
\* Account not found and the other user's record is still in the table and
\* in its owner's set.
PerUserIsolationWitness ==
    /\ call.method = "remove_account"
    /\ outcome.panic = AccountNotFound
    /\ MapHas(accounts_by_id, call.account_id)
    /\ accounts_by_id[call.account_id].user_id # call.user_id
    /\ call.account_id
         \in Elements(accounts_per_user[accounts_by_id[call.account_id].user_id])

====
